---------------------------- MODULE Spec2Model ----------------------------
(***************************************************************************)
(* Streaming feature-engineering engine of Crypto-MicroTerminal            *)
(* (src/lib/kv.ts, "Feature Engineering Library", lines 309-575).          *)
(*                                                                         *)
(* JavaScript numbers are modelled as exact rationals <<n, d>> in lowest   *)
(* terms with d > 0, extended with the IEEE special values                 *)
(*   <<1, 0>> = +Infinity,  <<-1, 0>> = -Infinity,  <<0, 0>> = NaN.        *)
(* A finite result whose numerator or denominator does not fit a 32-bit    *)
(* integer is not tracked: it is the value Unknown = <<0, -1>>, and so is  *)
(* everything computed from it.  No property is stated about Unknown.      *)
(* Arrays are objects on a heap: an IndicatorState holds REFERENCES to its *)
(* prices and timestamps arrays, as in JavaScript.                         *)
(***************************************************************************)
EXTENDS Integers, Sequences, FiniteSets, TLC

VARIABLES
    heap,        \* array id -> contents (the JavaScript heap of number[])
    st,          \* handle -> IndicatorState object held by the caller
    maxHistory,  \* the maxHistory argument the caller passes to updateState
    fed,         \* history: handle -> ticks <<price, timestamp>> fed on its chain
    seen,        \* history: handle -> buffer contents when the state was returned
    out,         \* last record returned by computeIndicators, with its inputs
    buf,         \* input prices: a scanner's argument, or the list a scenario feeds
    tms,         \* input timestamps: a scanner's argument, or those a scenario feeds
    now,         \* scanner input: currentTime argument
    res,         \* scanner outputs computed so far
    tick,        \* dashboard: the tick message received from the stream
    feats,       \* dashboard: the feature vector built from tick
    pred,        \* the result returned by predict
    srv,         \* the SSE stream handler: its timers, pending fetches, controller
    loader,      \* the module-level model cache and the calls of loadModel
    kvs,         \* POST /api/predict requests, their logPrediction calls, the KV store
    dash,        \* the dashboard page: latest tick and predict requests in flight
    flt          \* the EMA fields computed in IEEE-754 double arithmetic

\* The parts of the application outside the indicator library.
services == <<srv, loader, kvs, dash, flt>>

vars == <<heap, st, maxHistory, fed, seen, out, buf, tms, now, res, tick, feats, pred,
          srv, loader, kvs, dash, flt>>

---------------------------------------------------------------------------
(* Bounds of the model *)

MaxTicks == 4          \* updateState calls on one chain
MaxN == 3              \* explicit maxHistory values 1..MaxN
MaxDen == 27           \* largest ema26 denominator from which a further EMA step
                       \* is taken (keeps the exact arithmetic within 32 bits)
MaxFlat == 20          \* length of the flat prefix of a scanner input buffer
MaxTail == 2           \* length of the free tail of a scanner input buffer

Prices == {1, 2}            \* tick prices fed to updateState
TimeSteps == {3000, 40000}  \* milliseconds between two ticks
Lags == {0, 3000}           \* currentTime of computeIndicators minus the last tick's time
Handles == {1, 2, 3}        \* the caller's variables that hold a state object
ScanPrices == {0, 1, 2}     \* prices of a scanner input buffer
Windows == {30000, 60000}   \* windowMs arguments, as passed by computeIndicators

DefaultMaxHistory == 100

---------------------------------------------------------------------------
(* Numbers *)

Abs(x) == IF x < 0 THEN -x ELSE x

Sign(x) == IF x > 0 THEN 1 ELSE IF x < 0 THEN -1 ELSE 0

RECURSIVE Gcd(_, _)
Gcd(a, b) == IF b = 0 THEN a ELSE Gcd(b, a % b)

Norm(n, d) ==
    IF d = 0 THEN <<Sign(n), 0>>
    ELSE LET g == Gcd(Abs(n), Abs(d))
         IN  <<Sign(d) * (n \div g), Abs(d) \div g>>

NaN == <<0, 0>>
PosInf == <<1, 0>>
Unknown == <<0, -1>>
Num(i) == <<i, 1>>
Zero == Num(0)

IsNaN(a) == a = NaN
IsFinite(a) == a[2] # 0
IsUnknown(a) == a[2] < 0

\* x * y and x + y stay within the 32-bit integers.
FitsMul(x, y) == x = 0 \/ y = 0 \/ Abs(x) <= 2147483647 \div Abs(y)
FitsAdd(x, y) == Sign(x) # Sign(y) \/ Abs(x) <= 2147483647 - Abs(y)

Neg(a) == <<-a[1], a[2]>>

Add(a, b) ==
    IF IsNaN(a) \/ IsNaN(b) THEN NaN
    ELSE IF ~IsFinite(a) /\ ~IsFinite(b) THEN (IF a = b THEN a ELSE NaN)
    ELSE IF ~IsFinite(a) THEN a
    ELSE IF ~IsFinite(b) THEN b
    ELSE IF IsUnknown(a) \/ IsUnknown(b) THEN Unknown
    ELSE LET g == Gcd(a[2], b[2])
         IN  IF /\ FitsMul(a[1], b[2] \div g) /\ FitsMul(b[1], a[2] \div g)
                /\ FitsMul(a[2] \div g, b[2])
                /\ FitsAdd(a[1] * (b[2] \div g), b[1] * (a[2] \div g))
             THEN Norm(a[1] * (b[2] \div g) + b[1] * (a[2] \div g), (a[2] \div g) * b[2])
             ELSE Unknown

Sub(a, b) == Add(a, Neg(b))

Mul(a, b) ==
    IF IsNaN(a) \/ IsNaN(b) THEN NaN
    ELSE IF ~IsFinite(a) \/ ~IsFinite(b)
         THEN (IF IsUnknown(a) \/ IsUnknown(b) THEN Unknown
               ELSE <<Sign(a[1]) * Sign(b[1]), 0>>)
    ELSE IF IsUnknown(a) \/ IsUnknown(b) THEN Unknown
    ELSE LET g1 == Gcd(Abs(a[1]), b[2])
             g2 == Gcd(Abs(b[1]), a[2])
         IN  IF /\ FitsMul(a[1] \div g1, b[1] \div g2)
                /\ FitsMul(a[2] \div g2, b[2] \div g1)
             THEN Norm((a[1] \div g1) * (b[1] \div g2), (a[2] \div g2) * (b[2] \div g1))
             ELSE Unknown

\* IEEE division: x/0 is +-Infinity, 0/0 and Inf/Inf are NaN, x/Inf is 0.
Div(a, b) ==
    IF IsNaN(a) \/ IsNaN(b) THEN NaN
    ELSE IF IsUnknown(a) \/ IsUnknown(b) THEN Unknown
    ELSE IF ~IsFinite(b) THEN (IF IsFinite(a) THEN Zero ELSE NaN)
    ELSE IF ~IsFinite(a) THEN <<a[1] * (IF b[1] < 0 THEN -1 ELSE 1), 0>>
    ELSE IF b[1] = 0 THEN <<Sign(a[1]), 0>>
    ELSE Mul(a, Norm(b[2], b[1]))

\* JavaScript === on numbers: NaN equals nothing.
Eq(a, b) == ~IsNaN(a) /\ ~IsNaN(b) /\ a = b

\* JavaScript < on numbers: false when either side is NaN.
Lt(a, b) ==
    IF IsNaN(a) \/ IsNaN(b) \/ IsUnknown(a) \/ IsUnknown(b) THEN FALSE
    ELSE IF ~IsFinite(a) /\ ~IsFinite(b) THEN a[1] < b[1]
    ELSE IF ~IsFinite(a) THEN a[1] < 0
    ELSE IF ~IsFinite(b) THEN b[1] > 0
    ELSE a[1] * b[2] < b[1] * a[2]

Le(a, b) == Lt(a, b) \/ Eq(a, b)

\* reduce((a, b) => a + b, 0), summed by halves (exact sums are associative).
RECURSIVE SumSeq(_)
SumSeq(s) ==
    IF Len(s) = 0 THEN Zero
    ELSE IF Len(s) = 1 THEN s[1]
    ELSE LET half == Len(s) \div 2
         IN  Add(SumSeq(SubSeq(s, 1, half)), SumSeq(SubSeq(s, half + 1, Len(s))))

\* Array.prototype.slice(-k): the last k elements (all of them when shorter).
SliceLast(s, k) == IF Len(s) <= k THEN s ELSE SubSeq(s, Len(s) - k + 1, Len(s))

\* Math.sqrt on an integer that is a perfect square, else -1.
RECURSIVE IRoot(_, _, _)
IRoot(n, lo, hi) ==
    IF lo > hi THEN -1
    ELSE LET mid == (lo + hi) \div 2
         IN  IF mid * mid = n THEN mid
             ELSE IF mid * mid < n THEN IRoot(n, mid + 1, hi)
             ELSE IRoot(n, lo, mid - 1)

ISqrt(n) == IRoot(n, 0, IF n < 46340 THEN n ELSE 46340)

\* Math.sqrt.  A rational with a rational root gives that root; any other
\* positive rational v gives the surd <<0, 1, v>>, where <<a, b, v>> stands
\* for the real number a + b * sqrt(v).
Sqrt(x) ==
    IF IsNaN(x) THEN NaN
    ELSE IF IsUnknown(x) THEN Unknown
    ELSE IF ~IsFinite(x) THEN (IF x[1] > 0 THEN PosInf ELSE NaN)
    ELSE IF x[1] < 0 THEN NaN
    ELSE IF ISqrt(x[1]) >= 0 /\ ISqrt(x[2]) >= 0 THEN <<ISqrt(x[1]), ISqrt(x[2])>>
    ELSE <<Zero, Num(1), x>>

IsSurd(x) == Len(x) = 3

\* Arithmetic on a + b * sqrt(v); a value with b = 0 is the rational a.
Surd(a, b, v) == IF b = Zero THEN a ELSE <<a, b, v>>
RatPart(x) == IF IsSurd(x) THEN x[1] ELSE x
RootPart(x) == IF IsSurd(x) THEN x[2] ELSE Zero
Radicand(x, y) == IF IsSurd(x) THEN x[3] ELSE IF IsSurd(y) THEN y[3] ELSE Zero

RAdd(x, y) ==
    Surd(Add(RatPart(x), RatPart(y)), Add(RootPart(x), RootPart(y)), Radicand(x, y))

RSub(x, y) ==
    Surd(Sub(RatPart(x), RatPart(y)), Sub(RootPart(x), RootPart(y)), Radicand(x, y))

RMul(x, y) ==
    LET v == Radicand(x, y)
    IN  Surd(Add(Mul(RatPart(x), RatPart(y)), Mul(Mul(RootPart(x), RootPart(y)), v)),
             Add(Mul(RatPart(x), RootPart(y)), Mul(RootPart(x), RatPart(y))),
             v)

\* (a1 + b1 s) / (a2 + b2 s) = (a1 + b1 s)(a2 - b2 s) / (a2^2 - b2^2 v)
RDiv(x, y) ==
    IF ~IsSurd(x) /\ ~IsSurd(y) THEN Div(x, y)
    ELSE LET v == Radicand(x, y)
             n == RMul(x, Surd(RatPart(y), Neg(RootPart(y)), v))
             d == Sub(Mul(RatPart(y), RatPart(y)), Mul(Mul(RootPart(y), RootPart(y)), v))
         IN  Surd(Div(RatPart(n), d), Div(RootPart(n), d), v)

---------------------------------------------------------------------------
(* Feature engineering library: pure functions *)

EMA_ALPHA(span) == Div(Num(2), Num(span + 1))

ema(prev, price, span) ==
    LET alpha == EMA_ALPHA(span)
    IN  Add(Mul(alpha, price), Mul(Sub(Num(1), alpha), prev))

\* The scan of getReturnAtTime, from index i on; index 0 stands for -1 and
\* minDiff = -1 for Infinity.  Returns closestIdx.
RECURSIVE ClosestScan_LastWins(_, _, _, _, _)
RECURSIVE ClosestScan_Farthest(_, _, _, _, _)
RECURSIVE ClosestScan(_, _, _, _, _)

\* Mutant: the scan keeps the index with the largest distance.
ClosestScan_Farthest(timestamps, targetTime, i, minDiff, closestIdx) ==
    IF i > Len(timestamps) THEN closestIdx
    ELSE LET diff == Abs(timestamps[i] - targetTime)
         IN  IF minDiff = -1 \/ diff > minDiff
             THEN ClosestScan_Farthest(timestamps, targetTime, i + 1, diff, i)
             ELSE ClosestScan_Farthest(timestamps, targetTime, i + 1, minDiff, closestIdx)

\* Mutant: an equally close later index replaces the earlier one.
ClosestScan_LastWins(timestamps, targetTime, i, minDiff, closestIdx) ==
    IF i > Len(timestamps) THEN closestIdx
    ELSE LET diff == Abs(timestamps[i] - targetTime)
         IN  IF minDiff = -1 \/ diff <= minDiff
             THEN ClosestScan_LastWins(timestamps, targetTime, i + 1, diff, i)
             ELSE ClosestScan_LastWins(timestamps, targetTime, i + 1, minDiff, closestIdx)

ClosestScan(timestamps, targetTime, i, minDiff, closestIdx) ==
    IF i > Len(timestamps) THEN closestIdx
    ELSE LET diff == Abs(timestamps[i] - targetTime)
         IN  IF minDiff = -1 \/ diff < minDiff
             THEN ClosestScan(timestamps, targetTime, i + 1, diff, i)
             ELSE ClosestScan(timestamps, targetTime, i + 1, minDiff, closestIdx)

\* Mutant: the division is not guarded against a past price of 0.
ReturnAgainst_NoGuard(currentPrice, pastPrice) ==
    Div(Sub(currentPrice, pastPrice), pastPrice)

\* Lines 372-375 of getReturnAtTime.
ReturnAgainst(currentPrice, pastPrice) ==
    IF Eq(pastPrice, Zero) THEN Zero
    ELSE Div(Sub(currentPrice, pastPrice), pastPrice)

\* Mutant: the oldest buffered price is taken as the current price.
getReturnAtTime_OldestIsCurrent(prices, timestamps, targetTime) ==
    IF Len(prices) = 0 \/ Len(timestamps) = 0 THEN Zero
    ELSE LET currentPrice == prices[1]
             closestIdx == ClosestScan(timestamps, targetTime, 1, -1, 0)
         IN  IF closestIdx = 0 \/ closestIdx > Len(prices) THEN Zero
             ELSE ReturnAgainst(currentPrice, prices[closestIdx])

getReturnAtTime(prices, timestamps, targetTime) ==
    IF Len(prices) = 0 \/ Len(timestamps) = 0 THEN Zero
    ELSE LET currentPrice == prices[Len(prices)]
             closestIdx == ClosestScan(timestamps, targetTime, 1, -1, 0)
         IN  IF closestIdx = 0 \/ closestIdx > Len(prices) THEN Zero
             ELSE ReturnAgainst(currentPrice, prices[closestIdx])

calculateReturns(prices, timestamps, currentTime) ==
    [r5  |-> getReturnAtTime(prices, timestamps, currentTime - 5000),
     r15 |-> getReturnAtTime(prices, timestamps, currentTime - 15000),
     r30 |-> getReturnAtTime(prices, timestamps, currentTime - 30000),
     r60 |-> getReturnAtTime(prices, timestamps, currentTime - 60000)]

\* The loop of calculateVolatility: the returns at the indices i >= 1 (here
\* n >= 2) with timestamps[i] >= cutoff, in index order.  A missing
\* timestamps[i] is undefined and fails the test.
WindowReturns(prices, timestamps, cutoff) ==
    LET InWindow(n) == n <= Len(timestamps) /\ timestamps[n] >= cutoff
        idx == IF Len(prices) < 2 THEN <<>>
               ELSE SelectSeq([i \in 1..(Len(prices) - 1) |-> i + 1], InWindow)
    IN  [k \in 1..Len(idx) |->
            Div(Sub(prices[idx[k]], prices[idx[k] - 1]), prices[idx[k] - 1])]

\* reduce((sum, r) => sum + Math.pow(r - mean, 2), 0)
SumSqDev(s, mean) ==
    SumSeq([i \in 1..Len(s) |-> Mul(Sub(s[i], mean), Sub(s[i], mean))])

\* Mutant: a single return in the window is not treated as too few.
calculateVolatility_OneReturn(prices, timestamps, windowMs, currentTime) ==
    LET cutoff == currentTime - windowMs
        returns == WindowReturns(prices, timestamps, cutoff)
    IN  IF Len(returns) < 1 THEN Zero
        ELSE LET mean == Div(SumSeq(returns), Num(Len(returns)))
                 variance == Div(SumSqDev(returns, mean), Num(Len(returns) - 1))
             IN  Sqrt(variance)

calculateVolatility(prices, timestamps, windowMs, currentTime) ==
    LET cutoff == currentTime - windowMs
        returns == WindowReturns(prices, timestamps, cutoff)
    IN  IF Len(returns) < 2 THEN Zero
        ELSE LET mean == Div(SumSeq(returns), Num(Len(returns)))
                 variance == Div(SumSqDev(returns, mean), Num(Len(returns) - 1))
             IN  Sqrt(variance)

Changes(prices) == [i \in 1..(Len(prices) - 1) |-> Sub(prices[i + 1], prices[i])]

IsGain(c) == Lt(Zero, c)
IsLoss(c) == Lt(c, Zero)

\* Mutant: all changes of the buffer are used, not the last period ones.
RecentChanges_All(prices, period) == Changes(prices)

\* Lines 416-421 of calculateRSI.
RecentChanges(prices, period) == SliceLast(Changes(prices), period)

\* Mutant: gains and losses are swapped in the relative strength.
RsiFromAverages_Swapped(avgGain, avgLoss) ==
    IF Eq(avgLoss, Zero) THEN Num(100)
    ELSE LET rs == Div(avgLoss, avgGain)
         IN  Sub(Num(100), Div(Num(100), Add(Num(1), rs)))

\* Mutant: a series without gains and without losses is reported neutral.
RsiFromAverages_FlatNeutral(avgGain, avgLoss) ==
    IF Eq(avgLoss, Zero) /\ Eq(avgGain, Zero) THEN Num(50)
    ELSE IF Eq(avgLoss, Zero) THEN Num(100)
    ELSE LET rs == Div(avgGain, avgLoss)
         IN  Sub(Num(100), Div(Num(100), Add(Num(1), rs)))

\* Lines 428-430 of calculateRSI.
RsiFromAverages(avgGain, avgLoss) ==
    IF Eq(avgLoss, Zero) THEN Num(100)
    ELSE LET rs == Div(avgGain, avgLoss)
         IN  Sub(Num(100), Div(Num(100), Add(Num(1), rs)))

calculateRSI(prices, period) ==
    IF Len(prices) < period + 1 THEN Num(50)
    ELSE LET recentChanges == RecentChanges(prices, period)
             gains == SelectSeq(recentChanges, IsGain)
             lossesNeg == SelectSeq(recentChanges, IsLoss)
             losses == [i \in 1..Len(lossesNeg) |-> Neg(lossesNeg[i])]
             avgGain == IF Len(gains) > 0 THEN Div(SumSeq(gains), Num(period)) ELSE Zero
             avgLoss == IF Len(losses) > 0 THEN Div(SumSeq(losses), Num(period)) ELSE Zero
         IN  RsiFromAverages(avgGain, avgLoss)

\* state is an IndicatorState object; only its scalar fields are read.
calculateMACD(state, price) ==
    LET newEma12 == ema(state.ema12, price, 12)
        newEma26 == ema(state.ema26, price, 26)
        macd == Sub(newEma12, newEma26)
        signal == ema(state.prevSignal, macd, 9)
    IN  [macd |-> macd, signal |-> signal]

calculateBollingerPosition(prices, window, numStd) ==
    IF Len(prices) < window THEN <<1, 2>>
    ELSE LET recent == SliceLast(prices, window)
             sma == Div(SumSeq(recent), Num(Len(recent)))
             variance == Div(SumSqDev(recent, sma), Num(Len(recent)))
             std == Sqrt(variance)
         IN  IF std = Zero THEN <<1, 2>>
             ELSE LET upper == RAdd(sma, RMul(std, Num(numStd)))
                      lower == RSub(sma, RMul(std, Num(numStd)))
                      currentPrice == prices[Len(prices)]
                  IN  RDiv(RSub(currentPrice, lower), RSub(upper, lower))

---------------------------------------------------------------------------
(* Feature engineering library: IndicatorState *)

\* state is an IndicatorState object, h the heap its arrays live on.
computeIndicators(h, state, currentPrice, currentTime) ==
    LET returns == calculateReturns(h[state.prices], h[state.timestamps], currentTime)
        vol30 == calculateVolatility(h[state.prices], h[state.timestamps], 30000, currentTime)
        vol60 == calculateVolatility(h[state.prices], h[state.timestamps], 60000, currentTime)
        rsi14 == calculateRSI(h[state.prices], 14)
        m == calculateMACD(state, currentPrice)
        bbPosition == calculateBollingerPosition(h[state.prices], 20, 2)
    IN  [r5 |-> returns.r5, r15 |-> returns.r15, r30 |-> returns.r30, r60 |-> returns.r60,
         vol30 |-> vol30, vol60 |-> vol60, rsi14 |-> rsi14,
         macd |-> m.macd, signal |-> m.signal,
         bbPosition |-> bbPosition,
         priceMomentum |-> returns.r15,
         volumeTrend |-> Zero]

\* The object literal of initIndicatorState; its four array literals are the
\* fresh heap arrays base+1 .. base+4.
initIndicatorState(base) ==
    [prices |-> base + 1, timestamps |-> base + 2,
     ema12 |-> Zero, ema26 |-> Zero, prevMacd |-> Zero, prevSignal |-> Zero,
     rsiGains |-> base + 3, rsiLosses |-> base + 4]

\* Array.prototype.shift
Shift(a) == IF a = <<>> THEN a ELSE Tail(a)

\* Mutant: the newest entry is evicted (pop) instead of the oldest.
PushAndTrim_Pop(h, state, price, timestamp, n) ==
    LET pushed == [h EXCEPT ![state.prices] = Append(@, price),
                            ![state.timestamps] = Append(@, timestamp)]
    IN  IF Len(pushed[state.prices]) > n
        THEN [pushed EXCEPT ![state.prices] = SubSeq(@, 1, Len(@) - 1),
                            ![state.timestamps] = SubSeq(@, 1, Len(@) - 1)]
        ELSE pushed

\* Lines 550-557 of updateState: newState = {...state} copies the REFERENCES
\* to the arrays, so push and shift act on the arrays of the argument.
PushAndTrim(h, state, price, timestamp, n) ==
    LET pushed == [h EXCEPT ![state.prices] = Append(@, price),
                            ![state.timestamps] = Append(@, timestamp)]
    IN  IF Len(pushed[state.prices]) > n
        THEN [pushed EXCEPT ![state.prices] = Shift(@), ![state.timestamps] = Shift(@)]
        ELSE pushed

\* Mutant: the first price goes through the recurrence against the zero prior.
UpdateEmas_NoSeed(h2, newState, price) ==
    [newState EXCEPT !.ema12 = ema(newState.ema12, price, 12),
                     !.ema26 = ema(newState.ema26, price, 26)]

\* Lines 559-566 of updateState, on the heap h2 left by PushAndTrim.
UpdateEmas(h2, newState, price) ==
    IF Len(h2[newState.prices]) = 1
    THEN [newState EXCEPT !.ema12 = price, !.ema26 = price]
    ELSE [newState EXCEPT !.ema12 = ema(newState.ema12, price, 12),
                          !.ema26 = ema(newState.ema26, price, 26)]

\* Lines 568-571 of updateState.
UpdateMacd(newState, price) ==
    LET m == calculateMACD(newState, price)
    IN  [newState EXCEPT !.prevMacd = m.macd, !.prevSignal = m.signal]

\* updateState returns the new state object; the heap is its side effect.
updateState(h, state, price, timestamp, n) ==
    LET h2 == PushAndTrim(h, state, price, timestamp, n)
    IN  [heap |-> h2, state |-> UpdateMacd(UpdateEmas(h2, state, price), price)]

---------------------------------------------------------------------------
(* The caller: state objects held in variables, ticks fed one at a time *)

LastTime(ticks) == IF ticks = <<>> THEN 0 ELSE ticks[Len(ticks)][2]

Buffer(h, state) == [prices |-> h[state.prices], timestamps |-> h[state.timestamps]]

Bind(f, k, v) == [x \in DOMAIN f \cup {k} |-> IF x = k THEN v ELSE f[x]]

NoDashboard == tick = <<>> /\ feats = <<>> /\ pred = <<>>

NoServices == srv = <<>> /\ loader = <<>> /\ kvs = <<>> /\ dash = <<>> /\ flt = <<>>

NoScan == buf = <<>> /\ tms = <<>> /\ now = 0 /\ res = <<>> /\ NoDashboard /\ NoServices

\* let state = initIndicatorState(), held in variable 1.
Init ==
    /\ heap = [a \in 1..4 |-> <<>>]
    /\ st = (1 :> initIndicatorState(0))
    /\ maxHistory \in (1..MaxN) \cup {DefaultMaxHistory}
    /\ fed = (1 :> <<>>)
    /\ seen = (1 :> [prices |-> <<>>, timestamps |-> <<>>, arg |-> initIndicatorState(0)])
    /\ out = <<>>
    /\ NoScan

\* dst = updateState(src, price, timestamp, maxHistory)
UpdateState(src, dst, price, dt) ==
    /\ src \in DOMAIN st
    /\ Len(fed[src]) < MaxTicks
    /\ st[src].ema26[2] <= MaxDen
    /\ LET timestamp == LastTime(fed[src]) + dt
           r == updateState(heap, st[src], Num(price), timestamp, maxHistory)
       IN  /\ heap' = r.heap
           /\ st' = Bind(st, dst, r.state)
           /\ fed' = Bind(fed, dst, Append(fed[src], <<Num(price), timestamp>>))
           /\ seen' = Bind(seen, dst, [prices |-> r.heap[r.state.prices],
                                       timestamps |-> r.heap[r.state.timestamps],
                                       arg |-> st[src]])
    /\ UNCHANGED <<maxHistory, out, buf, tms, now, res, tick, feats, pred, services>>

\* Mutant: computeIndicators stores the signal it computed into the state.
ComputeIndicators_Store(src, price, lag) ==
    /\ src \in DOMAIN st
    /\ st[src].ema26[2] <= MaxDen
    /\ LET currentTime == LastTime(fed[src]) + lag
           rec == computeIndicators(heap, st[src], Num(price), currentTime)
       IN  /\ out' = <<[state |-> st[src],
                        buffer |-> Buffer(heap, st[src]),
                        price |-> Num(price),
                        time |-> currentTime,
                        sameTick |-> /\ fed[src] # <<>>
                                     /\ fed[src][Len(fed[src])] = <<Num(price), currentTime>>,
                        rec |-> rec]>>
           /\ st' = [st EXCEPT ![src].prevSignal = rec.signal]
    /\ UNCHANGED <<heap, maxHistory, fed, seen, buf, tms, now, res, tick, feats, pred, services>>

\* computeIndicators(src, price, currentTime); the record is kept in out
\* together with the arguments it was computed from.
ComputeIndicators(src, price, lag) ==
    /\ src \in DOMAIN st
    /\ st[src].ema26[2] <= MaxDen
    /\ LET currentTime == LastTime(fed[src]) + lag
       IN  out' = <<[state |-> st[src],
                     buffer |-> Buffer(heap, st[src]),
                     price |-> Num(price),
                     time |-> currentTime,
                     sameTick |-> /\ fed[src] # <<>>
                                  /\ fed[src][Len(fed[src])] = <<Num(price), currentTime>>,
                     rec |-> computeIndicators(heap, st[src], Num(price), currentTime)]>>
    /\ UNCHANGED <<heap, st, maxHistory, fed, seen, buf, tms, now, res, tick, feats, pred, services>>

\* One stream: the single variable is threaded through every call, as in
\* indicatorState = updateState(indicatorState, price, now).
Tick == \E price \in Prices, dt \in TimeSteps : UpdateState(1, 1, price, dt)

Read == \E price \in Prices, lag \in Lags : ComputeIndicators(1, price, lag)

Next == Tick \/ Read

Spec == Init /\ [][Next]_vars

\* A caller that keeps every state object it was given, each in a variable of
\* its own (const s1 = updateState(s0, ...)), and may update any of them.
TickAny == \E src \in Handles, dst \in Handles \ DOMAIN st, price \in Prices, dt \in TimeSteps :
               UpdateState(src, dst, price, dt)

ReadAny == \E src \in Handles, price \in Prices, lag \in Lags : ComputeIndicators(src, price, lag)

NextKeep == TickAny \/ ReadAny

SpecKeep == Init /\ [][NextKeep]_vars

\* A scripted run: from initIndicatorState() the prices buf are fed at the
\* timestamps tms, one updateState each with the default maxHistory, and
\* computeIndicators is called with the tick just fed.  The script is a rise
\* of two steps and a fall below the first price, base + <<0, 1, 2, 1, -1>>,
\* at evenly spaced timestamps.
ScenarioBases == {99, 100, 101}
ScenarioStarts == {0, 1000}
ScenarioSteps == {1000, 2000, 3000}
ScenarioShape == <<0, 1, 2, 1, -1>>

InitScenario ==
    /\ heap = [a \in 1..4 |-> <<>>]
    /\ st = (1 :> initIndicatorState(0))
    /\ maxHistory = DefaultMaxHistory
    /\ fed = (1 :> <<>>)
    /\ seen = (1 :> [prices |-> <<>>, timestamps |-> <<>>, arg |-> initIndicatorState(0)])
    /\ out = <<>>
    /\ \E base \in ScenarioBases, start \in ScenarioStarts, step \in ScenarioSteps :
           /\ buf = [i \in 1..Len(ScenarioShape) |-> Num(base + ScenarioShape[i])]
           /\ tms = [i \in 1..Len(ScenarioShape) |-> start + (i - 1) * step]
    /\ now = 0
    /\ res = <<>>
    /\ NoDashboard /\ NoServices

\* state = updateState(state, buf[k], tms[k]) for the next k.
Feed ==
    /\ Len(fed[1]) < Len(buf)
    /\ LET k == Len(fed[1]) + 1
           r == updateState(heap, st[1], buf[k], tms[k], maxHistory)
       IN  /\ heap' = r.heap
           /\ st' = [st EXCEPT ![1] = r.state]
           /\ fed' = [fed EXCEPT ![1] = Append(@, <<buf[k], tms[k]>>)]
           /\ seen' = [seen EXCEPT ![1] = [prices |-> r.heap[r.state.prices],
                                           timestamps |-> r.heap[r.state.timestamps],
                                           arg |-> st[1]]]
    /\ UNCHANGED <<maxHistory, out, buf, tms, now, res, tick, feats, pred, services>>

\* computeIndicators(state, price, t) with the tick fed last.
Compute ==
    /\ fed[1] # <<>>
    /\ LET last == fed[1][Len(fed[1])]
       IN  out' = <<[state |-> st[1],
                     buffer |-> Buffer(heap, st[1]),
                     price |-> last[1],
                     time |-> last[2],
                     sameTick |-> TRUE,
                     rec |-> computeIndicators(heap, st[1], last[1], last[2])]>>
    /\ UNCHANGED <<heap, st, maxHistory, fed, seen, buf, tms, now, res, tick, feats, pred, services>>

NextScenario == Feed \/ Compute

SpecScenario == InitScenario /\ [][NextScenario]_vars

\* A caller that passes a different maxHistory from one call to the next:
\* the argument is chosen anew between two calls.
SetMaxHistory ==
    /\ \E n \in (1..MaxN) \cup {DefaultMaxHistory} : n # maxHistory /\ maxHistory' = n
    /\ UNCHANGED <<heap, st, fed, seen, out, buf, tms, now, res, tick, feats, pred, services>>

NextVary == Tick \/ SetMaxHistory

SpecVary == Init /\ [][NextVary]_vars

---------------------------------------------------------------------------
(* Properties of the state operations *)

Min(a, b) == IF a < b THEN a ELSE b

\* The last m ticks of a chain, projected on component c (1 price, 2 timestamp).
LastOf(ticks, m, c) == [i \in 1..m |-> ticks[Len(ticks) - m + i][c]]

Rec == out[1].rec

\* C1: after k updateState calls on one chain with a fixed maxHistory N, prices
\* and timestamps both have length min(k, N) and hold exactly the last
\* min(k, N) pushed prices and timestamps, in arrival order and still paired.
C1_BufferHoldsLastN ==
    LET k == Len(fed[1])
        m == Min(k, maxHistory)
    IN  /\ heap[st[1].prices] = LastOf(fed[1], m, 1)
        /\ heap[st[1].timestamps] = LastOf(fed[1], m, 2)

C1_Witness ==
    /\ Len(fed[1]) > maxHistory
    /\ maxHistory >= 2
    /\ heap[st[1].prices][1] # heap[st[1].prices][2]
    /\ fed[1][1][1] # fed[1][2][1]

\* C2: updateState has value semantics: the buffer of every state object the
\* caller holds is what it was when that object was returned, and it holds
\* only the ticks of its own chain.
C2_ValueSemantics ==
    \A h \in DOMAIN st :
        /\ heap[st[h].prices] = seen[h].prices
        /\ heap[st[h].timestamps] = seen[h].timestamps
        /\ heap[st[h].prices] = LastOf(fed[h], Min(Len(fed[h]), maxHistory), 1)

\* C3: the macd that computeIndicators returns for the tick just fed to
\* updateState equals ema12 - ema26 of the updated state.
C3_MacdIsEmaDifference ==
    (out # <<>> /\ out[1].sameTick) =>
        Rec.macd = Sub(out[1].state.ema12, out[1].state.ema26)

\* C4: the signal line advances once per tick: the stored prevSignal is
\* ema(previous prevSignal, this tick's macd, 9), and the signal that
\* computeIndicators returns for the same tick is that stored prevSignal.
C4_SignalAdvancedOnce ==
    /\ \A h \in DOMAIN st :
           fed[h] # <<>> =>
               st[h].prevSignal =
                   ema(seen[h].arg.prevSignal, Sub(st[h].ema12, st[h].ema26), 9)
    /\ (out # <<>> /\ out[1].sameTick) => Rec.signal = out[1].state.prevSignal

\* C5: after exactly one updateState on a fresh state with price P and the
\* default maxHistory, ema12 = P and ema26 = P.
C5_FirstTickSeedsEmas ==
    (Len(fed[1]) = 1 /\ maxHistory = DefaultMaxHistory) =>
        /\ st[1].ema12 = fed[1][1][1]
        /\ st[1].ema26 = fed[1][1][1]

C5_Witness ==
    /\ Len(fed[1]) = 1
    /\ maxHistory = DefaultMaxHistory
    /\ st[1].ema12 = Num(2)

\* C6: computeIndicators changes no state object and no buffer; only
\* updateState (the step that extends a chain of ticks) does.
C6_ComputeIsPureReader ==
    [][/\ out' # out => (heap' = heap /\ st' = st)
       /\ (heap' # heap \/ st' # st) => fed' # fed]_vars

C6_Witness ==
    /\ out # <<>>
    /\ Len(out[1].buffer.prices) >= 2
    /\ out[1].state = st[1]
    /\ out[1].buffer = Buffer(heap, st[1])
    /\ Rec.macd # Zero

---------------------------------------------------------------------------
(* The window scanners as pure functions of a buffer *)

\* A buffer: a periodic prefix (flat for a motif of one price) and a free tail.
Motifs == UNION {[1..k -> ScanPrices] : k \in 1..2}
Tails == UNION {[1..k -> ScanPrices] : k \in 0..MaxTail}

Prefix(motif, m) == [i \in 1..m |-> motif[((i - 1) % Len(motif)) + 1]]

InitScan ==
    /\ heap = [a \in 1..4 |-> <<>>]
    /\ st = (1 :> initIndicatorState(0))
    /\ maxHistory = DefaultMaxHistory
    /\ fed = (1 :> <<>>)
    /\ seen = (1 :> [prices |-> <<>>, timestamps |-> <<>>, arg |-> initIndicatorState(0)])
    /\ out = <<>>
    /\ \E motif \in Motifs, m \in 0..MaxFlat, tail \in Tails, step \in TimeSteps :
           LET ps == Prefix(motif, m) \o tail
           IN  /\ buf = [i \in 1..Len(ps) |-> Num(ps[i])]
               /\ tms = [i \in 1..Len(ps) |-> i * step]
               /\ now = Len(ps) * step
    /\ res = <<>>
    /\ NoDashboard /\ NoServices

ScanRSI ==
    /\ res' = <<[fn |-> "rsi", windowMs |-> 0, value |-> calculateRSI(buf, 14)]>>
    /\ UNCHANGED <<heap, st, maxHistory, fed, seen, out, buf, tms, now, tick, feats, pred, services>>

ScanBollinger ==
    /\ res' = <<[fn |-> "bb", windowMs |-> 0, value |-> calculateBollingerPosition(buf, 20, 2)]>>
    /\ UNCHANGED <<heap, st, maxHistory, fed, seen, out, buf, tms, now, tick, feats, pred, services>>

ScanVolatility ==
    /\ \E windowMs \in Windows :
           res' = <<[fn |-> "vol", windowMs |-> windowMs,
                     value |-> calculateVolatility(buf, tms, windowMs, now)]>>
    /\ UNCHANGED <<heap, st, maxHistory, fed, seen, out, buf, tms, now, tick, feats, pred, services>>

\* The four lookups of calculateReturns, one at a time.
Horizons == {5000, 15000, 30000, 60000}

ScanReturn ==
    /\ \E h \in Horizons :
           res' = <<[fn |-> "ret", windowMs |-> h,
                     value |-> getReturnAtTime(buf, tms, now - h)]>>
    /\ UNCHANGED <<heap, st, maxHistory, fed, seen, out, buf, tms, now, tick, feats, pred, services>>

NextScan == ScanRSI \/ ScanBollinger \/ ScanVolatility \/ ScanReturn

SpecScan == InitScan /\ [][NextScan]_vars

---------------------------------------------------------------------------
(* Properties of the window scanners *)

Got(fn) == res # <<>> /\ res[1].fn = fn
Value == res[1].value

\* The one-step change that ends at index i of the buffer (prices are whole).
Change(i) == buf[i][1] - buf[i - 1][1]
Last14 == (Len(buf) - 13)..Len(buf)

\* Indices whose return calculateVolatility takes into the window.
Qualifying(windowMs) ==
    {i \in 2..Len(buf) : i <= Len(tms) /\ tms[i] >= now - windowMs}

\* C7: cold start gives neutral values: RSI is 50 below 15 prices, the
\* Bollinger position is 0.5 below 20 prices, and the volatility is 0 when
\* fewer than 2 returns fall in the window.
C7_ColdStartDefaults ==
    /\ (Got("rsi") /\ Len(buf) < 15) => Value = Num(50)
    /\ (Got("bb") /\ Len(buf) < 20) => Value = <<1, 2>>
    /\ (Got("vol") /\ Cardinality(Qualifying(res[1].windowMs)) < 2) => Value = Zero

C7_Witness ==
    /\ Got("vol")
    /\ Len(buf) >= 14
    /\ Len(buf) < 20
    /\ Cardinality(Qualifying(res[1].windowMs)) = 1
    /\ Change(Len(buf)) # 0
    /\ buf[Len(buf) - 1] # Zero
    /\ Value = Zero

\* C8: with at least 15 prices the RSI lies in [0, 100], and it is 0 exactly
\* when the last 14 changes hold no gain and at least one loss.
C8_RsiBounds ==
    (Got("rsi") /\ Len(buf) >= 15) =>
        /\ Le(Zero, Value) /\ Le(Value, Num(100))
        /\ Value = Zero <=> /\ \A i \in Last14 : Change(i) <= 0
                            /\ \E i \in Last14 : Change(i) < 0

C8_Witness ==
    /\ Got("rsi")
    /\ Len(buf) >= 15
    /\ Value = Zero

\* C9: 14 prices give RSI 50, and from 15 prices on the RSI is that of the
\* last 15 prices alone.
C9_RsiDependsOnLast15 ==
    /\ (Got("rsi") /\ Len(buf) = 14) => Value = Num(50)
    /\ (Got("rsi") /\ Len(buf) >= 15) => Value = calculateRSI(SliceLast(buf, 15), 14)

C9_Witness ==
    /\ Got("rsi")
    /\ Len(buf) >= 17
    /\ Change(2) > 0
    /\ Change(3) < 0
    /\ \E i \in Last14 : Change(i) > 0
    /\ \E i \in Last14 : Change(i) < 0
    /\ Value # Num(50)

\* C10: with at least 15 prices and no negative change among the last 14, the
\* RSI is 100, also for a flat series.
C10_NoLossGives100 ==
    (Got("rsi") /\ Len(buf) >= 15 /\ \A i \in Last14 : Change(i) >= 0) => Value = Num(100)

C10_Witness ==
    /\ Got("rsi")
    /\ Len(buf) >= 15
    /\ \A i \in Last14 : Change(i) = 0
    /\ Value = Num(100)

---------------------------------------------------------------------------
(* The dashboard: a tick message arrives, the feature vector is built from *)
(* it and sent to predict.                                                 *)

\* JavaScript values besides numbers: a missing field and JSON null.
Undefined == <<>>
Null == <<0, 0, 0, 0>>

\* JSON.stringify writes NaN and the infinities as null.
JsonNumber(x) == IF IsSurd(x) \/ IsUnknown(x) \/ IsFinite(x) THEN x ELSE Null

\* ToBoolean of a number, null or undefined.
Truthy(v) == v # Undefined /\ v # Null /\ v # NaN /\ v # Zero

\* a || b
Or(a, b) == IF Truthy(a) THEN a ELSE b

Half == <<1, 2>>

\* The array literal of es.onmessage.
FeatureVector(t) ==
    <<Or(t.r5, Zero),
      Or(t.r15, Zero),
      Or(t.r30, Zero),
      Or(t.r60, Zero),
      Or(t.vol30, Zero),
      Or(t.vol60, Zero),
      Div(Or(t.rsi14, Num(50)), Num(100)),
      Div(Or(t.macd, Zero), Or(t.price, Num(1))),
      Or(t.bbPosition, Half),
      Or(t.priceMomentum, Zero),
      Or(t.volumeTrend, Zero)>>

\* The array literal of the six-feature dashboard, the input of the
\* logistic model.
LinearFeatureVector(t) ==
    <<Or(t.r5, Zero), Or(t.r15, Zero), Or(t.r30, Zero),
      Or(t.vol30, Zero), Or(t.rsi14, Num(50)), Or(t.macd, Zero)>>

\* The message the stream handler sends for a buffer whose last price is
\* the price just fetched: { type: 'tick', t: now, price, ...indicators }
\* after JSON.  macd and signal come from the EMA fields of the state.
TickMessage(prices, timestamps, currentTime, macd) ==
    LET returns == calculateReturns(prices, timestamps, currentTime)
    IN  [type |-> "tick", t |-> currentTime, price |-> prices[Len(prices)],
         r5 |-> JsonNumber(returns.r5), r15 |-> JsonNumber(returns.r15),
         r30 |-> JsonNumber(returns.r30), r60 |-> JsonNumber(returns.r60),
         vol30 |-> JsonNumber(calculateVolatility(prices, timestamps, 30000, currentTime)),
         vol60 |-> JsonNumber(calculateVolatility(prices, timestamps, 60000, currentTime)),
         rsi14 |-> JsonNumber(calculateRSI(prices, 14)),
         macd |-> JsonNumber(macd), signal |-> JsonNumber(macd),
         bbPosition |-> JsonNumber(calculateBollingerPosition(prices, 20, 2)),
         priceMomentum |-> JsonNumber(returns.r15),
         volumeTrend |-> Zero]

\* The optional fields of the Tick interface.
TickFields == {"r5", "r15", "r30", "r60", "vol30", "vol60", "rsi14", "macd",
               "signal", "bbPosition", "priceMomentum", "volumeTrend"}

\* A sender that does not supply the fields in omitted.
Omit(t, omitted) == [f \in DOMAIN t |-> IF f \in omitted THEN Undefined ELSE t[f]]

Omissions == {{}, {"rsi14"}, {"bbPosition"}, {"r5"}, TickFields \ {"r5", "r15", "r30"}}

MacdValues == {Zero, <<17416, 123201>>}

VecMotifs == {<<Num(1)>>, <<Num(2)>>, <<Num(1), Num(2)>>, <<Num(2), Num(1)>>}
VecTails == {<<>>, <<Num(1)>>, <<Num(2)>>, <<Num(1), Num(1), Num(1), Num(1)>>}

\* The server's buffer when the message is sent: positive prices only, as
\* the stream handler feeds a price only when it is > 0.
InitVec ==
    /\ heap = [a \in 1..4 |-> <<>>]
    /\ st = (1 :> initIndicatorState(0))
    /\ maxHistory = DefaultMaxHistory
    /\ fed = (1 :> <<>>)
    /\ seen = (1 :> [prices |-> <<>>, timestamps |-> <<>>, arg |-> initIndicatorState(0)])
    /\ out = <<>>
    /\ \E motif \in VecMotifs, m \in 1..MaxFlat, tail \in VecTails, step \in TimeSteps :
           LET ps == Prefix(motif, m) \o tail
           IN  /\ buf = ps
               /\ tms = [i \in 1..Len(ps) |-> i * step]
               /\ now = Len(ps) * step
    /\ res = <<>>
    /\ NoDashboard /\ NoServices

\* es.onmessage, line 135: const tick = JSON.parse(e.data)
Receive ==
    /\ tick = <<>>
    /\ \E macd \in MacdValues, omitted \in Omissions :
           tick' = <<Omit(TickMessage(buf, tms, now, macd), omitted)>>
    /\ UNCHANGED <<heap, st, maxHistory, fed, seen, out, buf, tms, now, res, feats, pred, services>>

\* es.onmessage, lines 136 and 157-171.
BuildFeatures ==
    /\ tick # <<>> /\ feats = <<>>
    /\ tick[1].type = "tick" /\ Truthy(tick[1].price)
    /\ tick[1].r5 # Undefined /\ tick[1].r15 # Undefined /\ tick[1].r30 # Undefined
    /\ feats' = <<FeatureVector(tick[1])>>
    /\ UNCHANGED <<heap, st, maxHistory, fed, seen, out, buf, tms, now, res, tick, pred, services>>

\* The model output is not computed here: it is any of these values.
ProbValues == {Zero, Half, <<3, 4>>, Num(1), NaN}

\* Mutant: a probability of exactly 0.5 is labelled 1.
LabelOf_AtLeast(prob) == IF Le(Half, prob) THEN 1 ELSE 0

\* const label = prob > 0.5 ? 1 : 0
LabelOf(prob) == IF Lt(Half, prob) THEN 1 ELSE 0

\* The catch branch of the neural predict.
Fallback == [prob |-> Half, label |-> 0]

FeatureCount == 11
CoeffCount == 6

\* Lines 113-123 of the neural predict: pad with 0 or truncate.
PadOrTruncate(features, n) ==
    [i \in 1..n |-> IF i <= Len(features) THEN features[i] ELSE Zero]

\* predict of the neural model: the network's output or, on any error, the
\* fallback.
PredictNeural ==
    /\ feats # <<>>
    /\ LET features == PadOrTruncate(feats[1], FeatureCount)
       IN  \/ \E prob \in ProbValues :
                 pred' = <<[path |-> "neural", n |-> Len(features),
                            result |-> [prob |-> prob, label |-> LabelOf(prob)]]>>
           \/ pred' = <<[path |-> "fallback", n |-> Len(features), result |-> Fallback]>>
    /\ UNCHANGED <<heap, st, maxHistory, fed, seen, out, buf, tms, now, res, tick, feats, services>>

\* predict of the logistic model on the six-feature vector; a vector of
\* another length throws and returns nothing.
PredictLinear ==
    /\ tick # <<>> /\ feats # <<>>
    /\ LET features == LinearFeatureVector(tick[1])
       IN  /\ Len(features) = CoeffCount
           /\ \E prob \in ProbValues \ {Zero, Num(1)} :
                  pred' = <<[path |-> "linear", n |-> Len(features),
                             result |-> [prob |-> prob, label |-> LabelOf(prob)]]>>
    /\ UNCHANGED <<heap, st, maxHistory, fed, seen, out, buf, tms, now, res, tick, feats, services>>

NextVec == Receive \/ BuildFeatures \/ PredictNeural \/ PredictLinear

SpecVec == InitVec /\ [][NextVec]_vars

\* The distance of the i-th buffered timestamp to the target of the lookup
\* that produced res.
Dist(i) == Abs(tms[i] - (now - res[1].windowMs))

\* The first index at the least distance.
Nearest == CHOOSE i \in 1..Len(tms) :
               /\ \A j \in 1..Len(tms) : Dist(i) <= Dist(j)
               /\ \A j \in 1..(i - 1) : Dist(i) < Dist(j)

\* C11: getReturnAtTime returns 0 on an empty buffer and 0 when the price at
\* the chosen index is 0, and for every buffer and target it returns a
\* number.
C11_ReturnGuards ==
    Got("ret") =>
        /\ IsFinite(Value) /\ ~IsUnknown(Value)
        /\ buf = <<>> => Value = Zero
        /\ (buf # <<>> /\ buf[Nearest] = Zero) => Value = Zero

C11_Witness ==
    /\ Got("ret") /\ buf # <<>>
    /\ buf[Nearest] = Zero /\ buf[Len(buf)] # Zero
    /\ Value = Zero

\* C13: the past observation is the one nearest in time to the target, and
\* among equally near ones the one at the lowest index.
C13_NearestFirstFound ==
    (Got("ret") /\ buf # <<>>) =>
        Value = (IF buf[Nearest] = Zero THEN Zero
                 ELSE Div(Sub(buf[Len(buf)], buf[Nearest]), buf[Nearest]))

C13_Witness ==
    /\ Got("ret") /\ buf # <<>>
    /\ \E j \in (Nearest + 1)..Len(tms) :
           /\ Dist(j) = Dist(Nearest)
           /\ buf[j] # Zero /\ buf[Nearest] # Zero
           /\ buf[j] # buf[Nearest]
    /\ Value = Div(Sub(buf[Len(buf)], buf[Nearest]), buf[Nearest])

\* C20: for every buffer of finite prices, a price of 0 included, each
\* indicator is a defined finite number: no division by zero reaches the
\* result.
C20_NoDivisionByZero ==
    res # <<>> => (IsSurd(Value) \/ (IsFinite(Value) /\ ~IsNaN(Value)))

---------------------------------------------------------------------------
(* Returns and seeding on the threaded stream (Spec) *)

\* The first index of timestamps at the least distance to target.
NearestIdx(timestamps, target) ==
    CHOOSE i \in 1..Len(timestamps) :
        /\ \A j \in 1..Len(timestamps) :
               Abs(timestamps[i] - target) <= Abs(timestamps[j] - target)
        /\ \A j \in 1..(i - 1) :
               Abs(timestamps[i] - target) < Abs(timestamps[j] - target)

\* (current - past) / past with past the buffered price nearest to
\* time - horizon, 0 for a past price of 0.
ReturnFrom(current, buffer, time, horizon) ==
    LET past == buffer.prices[NearestIdx(buffer.timestamps, time - horizon)]
    IN  IF past = Zero THEN Zero ELSE Div(Sub(current, past), past)

ReturnsFrom(current, buffer, time) ==
    [r5  |-> ReturnFrom(current, buffer, time, 5000),
     r15 |-> ReturnFrom(current, buffer, time, 15000),
     r30 |-> ReturnFrom(current, buffer, time, 30000),
     r60 |-> ReturnFrom(current, buffer, time, 60000)]

RecReturns == [r5 |-> Rec.r5, r15 |-> Rec.r15, r30 |-> Rec.r30, r60 |-> Rec.r60]

TailPrice == out[1].buffer.prices[Len(out[1].buffer.prices)]

\* C12: as claimed, each of r5, r15, r30, r60 of computeIndicators is
\* (currentPrice - pastPrice) / pastPrice with currentPrice the argument,
\* also when the argument differs from the last buffered price.
C12_ReturnsUseArgument ==
    (out # <<>> /\ out[1].buffer.prices # <<>>) =>
        RecReturns = ReturnsFrom(out[1].price, out[1].buffer, out[1].time)

\* C12, amended: each of r5, r15, r30, r60 of computeIndicators is
\* (last - pastPrice) / pastPrice with last the last price of the buffer,
\* whatever the currentPrice argument is.
C12_ReturnsUseBufferTail ==
    (out # <<>> /\ out[1].buffer.prices # <<>>) =>
        RecReturns = ReturnsFrom(TailPrice, out[1].buffer, out[1].time)

C12_Witness ==
    /\ out # <<>> /\ out[1].buffer.prices # <<>>
    /\ out[1].price # TailPrice
    /\ RecReturns = ReturnsFrom(TailPrice, out[1].buffer, out[1].time)
    /\ Rec.r5 # ReturnFrom(out[1].price, out[1].buffer, out[1].time, 5000)
    /\ Rec.r5 # Zero

\* C19: the EMAs are the raw price after the first updateState of a state
\* and after every later call they are the recurrence applied to the EMAs
\* of the argument state, for every maxHistory >= 1.
C19_SeedOnlyOnFirst ==
    LET k == Len(fed[1])
    IN  k >= 1 =>
            LET price == fed[1][k][1]
                prev == seen[1].arg
            IN  IF k = 1
                THEN st[1].ema12 = price /\ st[1].ema26 = price
                ELSE /\ st[1].ema12 = ema(prev.ema12, price, 12)
                     /\ st[1].ema26 = ema(prev.ema26, price, 26)

\* C18: for any input state and any maxHistory, the buffer returned by
\* updateState is never longer than maxHistory, also when the incoming buffer
\* was already longer because maxHistory was lowered between calls.
C18_LengthNeverExceedsMaxHistory ==
    [][fed' # fed => /\ Len(heap'[st'[1].prices]) <= maxHistory
                     /\ Len(heap'[st'[1].timestamps]) <= maxHistory]_vars

\* The script of the claim: prices 100, 101, 102, 101, 99 at 0 .. 4000.
ClaimedScript ==
    /\ buf = <<Num(100), Num(101), Num(102), Num(101), Num(99)>>
    /\ tms = <<0, 1000, 2000, 3000, 4000>>

Computed(k) == out # <<>> /\ Len(out[1].buffer.prices) = k /\ Len(fed[1]) = k

\* C14: after the five ticks 100, 101, 102, 101, 99 at 0, 1000, .., 4000 the
\* buffer has length 5 and computeIndicators at t = 4000, price 99 gives
\* r5 = (99 - 100) / 100 = -1/100; and whenever every buffered timestamp is
\* at or after the target of a lookup, the return is the one against the
\* oldest buffered price.
C14_ReturnAgainstOldest ==
    /\ (ClaimedScript /\ Len(fed[1]) = 5) =>
           /\ Len(heap[st[1].prices]) = 5 /\ Len(heap[st[1].timestamps]) = 5
           /\ (out # <<>> /\ out[1].time = 4000) =>
                  /\ out[1].price = Num(99)
                  /\ Rec.r5 = <<-1, 100>>
    /\ out # <<>> =>
           LET b == out[1].buffer
               oldest == Div(Sub(TailPrice, b.prices[1]), b.prices[1])
               AllAfter(h) == \A i \in 1..Len(b.timestamps) :
                                  b.timestamps[i] >= out[1].time - h
           IN  /\ AllAfter(5000) => Rec.r5 = oldest
               /\ AllAfter(15000) => Rec.r15 = oldest
               /\ AllAfter(30000) => Rec.r30 = oldest
               /\ AllAfter(60000) => Rec.r60 = oldest

C14_Witness ==
    /\ ClaimedScript /\ Computed(5)
    /\ out[1].time = 4000 /\ out[1].price = Num(99)
    /\ Rec.r5 = <<-1, 100>>

---------------------------------------------------------------------------
(* Feature vector and prediction (SpecVec) *)

Supplied(v) == v # Undefined /\ v # Null

Msg == tick[1]
Vec == feats[1]

\* C15: every feature vector built has exactly 11 elements, in the order
\* r5, r15, r30, r60, vol30, vol60, rsi14/100, macd/price, bbPosition,
\* priceMomentum, volumeTrend, each taken from the tick message.
C15_VectorLayout ==
    feats # <<>> =>
        /\ Len(Vec) = 11
        /\ Supplied(Msg.r5) => Vec[1] = Msg.r5
        /\ Supplied(Msg.r15) => Vec[2] = Msg.r15
        /\ Supplied(Msg.r30) => Vec[3] = Msg.r30
        /\ Supplied(Msg.r60) => Vec[4] = Msg.r60
        /\ Supplied(Msg.vol30) => Vec[5] = Msg.vol30
        /\ Supplied(Msg.vol60) => Vec[6] = Msg.vol60
        /\ Supplied(Msg.rsi14) => Vec[7] = Div(Msg.rsi14, Num(100))
        /\ Supplied(Msg.macd) => Vec[8] = Div(Msg.macd, Msg.price)
        /\ Supplied(Msg.bbPosition) => Vec[9] = Msg.bbPosition
        /\ Supplied(Msg.priceMomentum) => Vec[10] = Msg.priceMomentum
        /\ Supplied(Msg.volumeTrend) => Vec[11] = Msg.volumeTrend

\* C16: a default replaces rsi14 or bbPosition only when the field is unset:
\* a supplied rsi14, 0 included, gives rsi14/100 and a supplied bbPosition,
\* 0 included, is passed through; 0.5 is used only for a missing field.
C16_DefaultsOnlyWhenUnset ==
    feats # <<>> =>
        /\ Vec[7] = (IF Supplied(Msg.rsi14) THEN Div(Msg.rsi14, Num(100)) ELSE Half)
        /\ Vec[9] = (IF Supplied(Msg.bbPosition) THEN Msg.bbPosition ELSE Half)

\* C17: every result of predict, the fallback included, has label 1 exactly
\* when its probability is greater than 0.5, and label 0 otherwise.
C17_LabelIffAboveHalf ==
    pred # <<>> =>
        /\ pred[1].result.label \in {0, 1}
        /\ pred[1].result.label = 1 <=> Lt(Half, pred[1].result.prob)

C17_Witness ==
    /\ pred # <<>>
    /\ pred[1].path = "fallback"
    /\ pred[1].result.prob = Half /\ pred[1].result.label = 0

---------------------------------------------------------------------------
(* The SSE stream handler (GET of src/app/api/metrics/route.ts).            *)
(* JavaScript runs one task at a time: an action is the code that runs      *)
(* between two awaits, or one timer or event callback.                      *)

MaxClock == 3          \* the clock runs 0..MaxClock, in poll periods of 3 s
MaxPolls == 2          \* interval callbacks started in one run
HourPeriods == 2       \* the 1-hour timeout, in poll periods (1200 in the source)

PollPeriod == 3000

\* Date.now()
DateNow(clock) == clock * PollPeriod

\* What the price request can come to: a failure, or a body in which
\* bitcoin.usd is missing or a number.
FetchOutcomes ==
    {[ok |-> FALSE, usd |-> Undefined]} \cup
    {[ok |-> TRUE, usd |-> v] : v \in {Undefined, Zero, Num(1), Num(2)}}

\* fetchPrice: data.bitcoin?.usd || 0, and 0 after any error.
fetchPrice(outcome) == IF outcome.ok THEN Or(outcome.usd, Zero) ELSE Zero

\* Mutant: price >= 0
Positive_OrZero(price) == Le(Zero, price)

\* price > 0
Positive(price) == Lt(Zero, price)

\* Mutant: the time of the tick is the time at which its fetch was started.
Stamp_AtStart(started, clock) == DateNow(started)

\* const now = Date.now(), taken after the await of fetchPrice.
Stamp(started, clock) == DateNow(clock)

\* Mutant: the indicators are computed before the state is updated.
TickPass_ComputeFirst(h, state, price, time) ==
    LET r == updateState(h, state, price, time, DefaultMaxHistory)
    IN  [heap |-> r.heap, state |-> r.state,
         indicators |-> computeIndicators(h, state, price, time),
         buffer |-> Buffer(h, state)]

\* Lines 93-95 and 110-112: updateState, then computeIndicators on the state
\* it returned; buffer is what the indicators were computed from.
TickPass(h, state, price, time) ==
    CHOOSE pass \in
        {[heap |-> r.heap, state |-> r.state,
          indicators |-> computeIndicators(r.heap, r.state, price, time),
          buffer |-> Buffer(r.heap, r.state)] :
             r \in {updateState(h, state, price, time, DefaultMaxHistory)}} : TRUE

\* send: controller.enqueue throws on a closed controller; the call is
\* recorded in afterClose and nothing is sent.
Send(s, data) ==
    IF s.closed THEN [s EXCEPT !.afterClose = @ \cup {"enqueue"}]
    ELSE [s EXCEPT !.sent = Append(@, data)]

\* controller.close(), which throws on a closed controller.
Close(s) ==
    IF s.closed THEN [s EXCEPT !.afterClose = @ \cup {"close"}]
    ELSE [s EXCEPT !.closed = TRUE]

TickData(pass, price, time, updates, by) ==
    [type |-> "tick", t |-> time, price |-> price,
     indicators |-> pass.indicators,
     buffer |-> pass.buffer,     \* history: the buffer the indicators reflect
     updates |-> updates,        \* history: updateState calls made so far
     by |-> by]                  \* history: the callback that sent it, 0 = start

\* try { ... send(tick) } catch { send(error) }: when the first send throws,
\* the handler sends the error message, which throws again.
SendInTry(s, data) ==
    IF s.closed THEN Send(Send(s, data), [type |-> "error"]) ELSE Send(s, data)

streamFrame == <<maxHistory, out, buf, tms, now, res, tick, feats, pred,
                 loader, kvs, dash, flt>>

\* GET has run down to the first await: the state is fresh, 'connected' is
\* sent and the initial fetchPrice is pending.
InitStream ==
    /\ heap = [a \in 1..4 |-> <<>>]
    /\ st = (1 :> initIndicatorState(0))
    /\ maxHistory = DefaultMaxHistory
    /\ fed = (1 :> <<>>)
    /\ seen = (1 :> [prices |-> <<>>, timestamps |-> <<>>, arg |-> initIndicatorState(0)])
    /\ out = <<>>
    /\ buf = <<>> /\ tms = <<>> /\ now = 0 /\ res = <<>>
    /\ NoDashboard
    /\ loader = <<>> /\ kvs = <<>> /\ dash = <<>> /\ flt = <<>>
    /\ srv = [phase |-> "initial", interval |-> FALSE, nextPoll |-> 0,
              listener |-> FALSE, timer |-> -1,
              aborted |-> FALSE, closed |-> FALSE, clock |-> 0,
              cbs |-> {}, polls |-> 0,
              sent |-> <<[type |-> "connected"]>>,
              afterClose |-> {},       \* history: controller calls made after close
              fetches |-> 1,           \* history: fetchPrice calls started
              returned |-> <<>>]       \* history: what the fetches returned, in order

\* The state and the messages after a fetch has returned price at time.
AfterFetch(s, price, time, by) ==
    IF Positive(price)
    THEN CHOOSE a \in
             {[heap |-> pass.heap, state |-> pass.state, fed |-> <<<<price, time>>>>,
               data |-> <<TickData(pass, price, time, Len(fed[1]) + 1, by)>>] :
                  pass \in {TickPass(heap, st[1], price, time)}} : TRUE
    ELSE [heap |-> heap, state |-> st[1], fed |-> <<>>, data |-> <<>>]

Store(a) ==
    /\ heap' = a.heap
    /\ st' = [st EXCEPT ![1] = a.state]
    /\ fed' = [fed EXCEPT ![1] = @ \o a.fed]
    /\ seen' = IF a.fed = <<>> THEN seen
               ELSE [seen EXCEPT ![1] = [prices |-> a.heap[a.state.prices],
                                         timestamps |-> a.heap[a.state.timestamps],
                                         arg |-> st[1]]]

\* Time passes.
Advance ==
    /\ srv.clock < MaxClock
    /\ srv' = [srv EXCEPT !.clock = @ + 1]
    /\ UNCHANGED <<heap, st, fed, seen, streamFrame>>

\* Lines 91-138: the initial fetch returns; the first tick is sent if the
\* price is > 0; then the interval, the abort listener and the 1-hour timer
\* are set up.  A listener added after the abort event is never called.
InitialFetchReturns ==
    /\ srv.phase = "initial"
    /\ \E outcome \in FetchOutcomes :
       \E a \in {AfterFetch(srv, fetchPrice(outcome), DateNow(srv.clock), 0)} :
          LET lastPrice == fetchPrice(outcome)
              s1 == IF a.data = <<>> THEN srv ELSE Send(srv, a.data[1])
          IN  /\ Store(a)
              /\ srv' = [s1 EXCEPT !.phase = "running",
                                   !.interval = TRUE, !.nextPoll = srv.clock + 1,
                                   !.listener = TRUE,
                                   !.timer = srv.clock + HourPeriods,
                                   !.returned = Append(@, lastPrice)]
    /\ UNCHANGED streamFrame

\* The interval fires: the callback runs to its await, fetchPrice is pending.
PollFires ==
    /\ srv.interval /\ srv.clock >= srv.nextPoll
    /\ srv.polls < MaxPolls
    /\ srv' = [srv EXCEPT !.nextPoll = @ + 1, !.polls = @ + 1, !.fetches = @ + 1,
                          !.cbs = @ \cup {[id |-> srv.polls + 1, started |-> srv.clock]}]
    /\ UNCHANGED <<heap, st, fed, seen, streamFrame>>

\* Lines 108-124: the fetch of one callback returns and the callback runs to
\* its end.
PollFetchReturns ==
    /\ \E cb \in srv.cbs, outcome \in FetchOutcomes :
       \E a \in {AfterFetch(srv, fetchPrice(outcome), Stamp(cb.started, srv.clock), cb.id)} :
          LET price == fetchPrice(outcome)
              s1 == IF a.data = <<>> THEN srv ELSE SendInTry(srv, a.data[1])
          IN  /\ Store(a)
              /\ srv' = [s1 EXCEPT !.cbs = @ \ {cb},
                                   !.returned = Append(@, price)]
    /\ UNCHANGED streamFrame

\* The client disconnects: request.signal fires 'abort' once; the listener,
\* if registered, clears the interval and closes the controller.
ClientAbort ==
    /\ ~srv.aborted
    /\ srv' = IF srv.listener
              THEN Close([srv EXCEPT !.aborted = TRUE, !.interval = FALSE])
              ELSE [srv EXCEPT !.aborted = TRUE]
    /\ UNCHANGED <<heap, st, fed, seen, streamFrame>>

\* Lines 134-138: the 1-hour timer fires; close() is reached only if the
\* send did not throw.
Timeout ==
    /\ srv.timer >= 0 /\ srv.clock >= srv.timer
    /\ LET s0 == [srv EXCEPT !.timer = -1, !.interval = FALSE]
       IN  srv' = IF s0.closed THEN Send(s0, [type |-> "closed"])
                  ELSE Close(Send(s0, [type |-> "closed"]))
    /\ UNCHANGED <<heap, st, fed, seen, streamFrame>>

NextStream ==
    Advance \/ InitialFetchReturns \/ PollFires \/ PollFetchReturns \/ ClientAbort \/ Timeout

SpecStream == InitStream /\ [][NextStream]_vars

---------------------------------------------------------------------------
(* The model cache of the neural predict (loadModel, src/unnamed/part_006). *)
(* model and modelLoading are module-level; every predict calls loadModel.  *)

MaxCallers == 4        \* concurrent calls of loadModel

Callers == 1..MaxCallers

\* model === null
NoModel == <<>>

\* The two ways a load ends: tf.loadLayersModel resolves, or it rejects and
\* createFallbackModel() is used.  Each load yields an object of its own.
LoadOutcomes == {"loaded", "fallback"}

\* Mutant: a call that finds a load in progress does not wait.
MustWait_Never(l) == FALSE

\* if (modelLoading)
MustWait(l) == l.modelLoading

\* Line 31 to the await of line 34: the call starts a load.
StartLoad(l, c) ==
    [l EXCEPT !.modelLoading = TRUE,
              !.loads = @ + 1,
              !.calls[c].pc = "loading"]

loaderFrame == <<heap, st, maxHistory, fed, seen, out, buf, tms, now, res,
                 tick, feats, pred, srv, kvs, dash, flt>>

InitLoader ==
    /\ heap = [a \in 1..4 |-> <<>>]
    /\ st = (1 :> initIndicatorState(0))
    /\ maxHistory = DefaultMaxHistory
    /\ fed = (1 :> <<>>)
    /\ seen = (1 :> [prices |-> <<>>, timestamps |-> <<>>, arg |-> initIndicatorState(0)])
    /\ out = <<>>
    /\ buf = <<>> /\ tms = <<>> /\ now = 0 /\ res = <<>>
    /\ NoDashboard
    /\ srv = <<>> /\ kvs = <<>> /\ dash = <<>> /\ flt = <<>>
    /\ loader = [model |-> NoModel, modelLoading |-> FALSE,
                 loads |-> 0,      \* history: loads started
                 calls |-> [c \in Callers |->
                               [pc |-> "idle", ret |-> NoModel, waited |-> FALSE]]]

\* loadModel() is called and runs to its first await or to its return.
CallLoadModel(c) ==
    /\ loader.calls[c].pc = "idle"
    /\ loader' = IF loader.model # NoModel
                 THEN [loader EXCEPT !.calls[c].pc = "done",
                                     !.calls[c].ret = loader.model]
                 ELSE IF MustWait(loader)
                 THEN [loader EXCEPT !.calls[c].pc = "waiting",
                                     !.calls[c].waited = TRUE]
                 ELSE StartLoad(loader, c)
    /\ UNCHANGED loaderFrame

\* The 100 ms timer of a waiting call resolves while no load is in progress
\* any more: the loop ends; the call returns the model or, if there is
\* none, starts a load.  (While modelLoading holds the call sleeps again.)
WaitEnds(c) ==
    /\ loader.calls[c].pc = "waiting"
    /\ ~loader.modelLoading
    /\ loader' = IF loader.model # NoModel
                 THEN [loader EXCEPT !.calls[c].pc = "done",
                                     !.calls[c].ret = loader.model]
                 ELSE StartLoad(loader, c)
    /\ UNCHANGED loaderFrame

\* Lines 34-44: the load of call c settles; model is set to the loaded or
\* to the fallback model, modelLoading is reset, and the call returns model.
LoadSettles(c) ==
    /\ loader.calls[c].pc = "loading"
    /\ \E outcome \in LoadOutcomes :
          LET m == <<outcome, loader.loads>>
          IN  loader' = [loader EXCEPT !.model = m,
                                       !.modelLoading = FALSE,
                                       !.calls[c].pc = "done",
                                       !.calls[c].ret = m]
    /\ UNCHANGED loaderFrame

NextLoader == \E c \in Callers : CallLoadModel(c) \/ WaitEnds(c) \/ LoadSettles(c)

SpecLoader == InitLoader /\ [][NextLoader]_vars

---------------------------------------------------------------------------
(* POST /api/predict (src/unnamed/part_002) and logPrediction               *)
(* (src/lib/kv.ts 173-202).  The sorted set 'predictions' is the sequence   *)
(* of its members in rank order; every zadd has a later score than the ones *)
(* before it, so a new member gets the highest rank.                        *)

MaxRequests == 3       \* POST requests in one run
MAX_PREDICTIONS == 1   \* entries kept in the sorted set (1000 in the source)

Requests == 1..MaxRequests

\* body.features: not an array, or an array of 6 or of 11 numbers.
Bodies == {[array |-> FALSE, len |-> 0], [array |-> TRUE, len |-> 6],
           [array |-> TRUE, len |-> 11]}

\* Mutant: every body passes the test.
IsArray_Always(features) == TRUE

\* Array.isArray(features)
IsArray(features) == features.array

\* The two libraries that are @/lib/model: the logistic one of
\* src/lib/model.ts and the neural one of src/unnamed/part_006.
Libraries == {"logistic", "neural"}

\* The logistic predict throws when the length is not that of coeffs; the
\* neural predict pads or truncates, and catches every error.
PredictThrows(lib, features) == lib = "logistic" /\ features.len # CoeffCount

\* The probability the model gives for a features array; predict is a
\* function of its argument, two values stand for its range.
ModelProb(features) == IF features.len = CoeffCount THEN <<3, 4>> ELSE Half

\* The three responses of POST.
BadRequest == [status |-> 400, prob |-> Undefined, label |-> Undefined]
ServerError == [status |-> 500, prob |-> Undefined, label |-> Undefined]
Ok(prob, label) == [status |-> 200, prob |-> prob, label |-> label]

\* zremrangebyrank(key, 0, toRemove - 1)
ZRemRangeByRank(zset, toRemove) ==
    IF toRemove >= Len(zset) THEN <<>> ELSE SubSeq(zset, toRemove + 1, Len(zset))

kvFrame == <<heap, st, maxHistory, fed, seen, out, buf, tms, now, res,
             tick, feats, pred, srv, loader, dash, flt>>

InitKv ==
    /\ heap = [a \in 1..4 |-> <<>>]
    /\ st = (1 :> initIndicatorState(0))
    /\ maxHistory = DefaultMaxHistory
    /\ fed = (1 :> <<>>)
    /\ seen = (1 :> [prices |-> <<>>, timestamps |-> <<>>, arg |-> initIndicatorState(0)])
    /\ out = <<>>
    /\ buf = <<>> /\ tms = <<>> /\ now = 0 /\ res = <<>>
    /\ NoDashboard
    /\ srv = <<>> /\ loader = <<>> /\ dash = <<>> /\ flt = <<>>
    /\ \E lib \in Libraries :
       kvs = [lib |-> lib,
              zset |-> <<>>,
              added |-> <<>>,      \* history: members in the order of their zadd
              reqs |-> [r \in Requests |->
                          [pc |-> "new", features |-> <<>>, response |-> <<>>,
                           result |-> <<>>,       \* what predict returned
                           log |-> "none",        \* position of its logPrediction
                           toRemove |-> 0,
                           logAtResponse |-> "none"]]]   \* history

\* Lines 14-29: the body is parsed; a features value that is no array is
\* answered with 400, otherwise predict is called.
Post(r) ==
    /\ kvs.reqs[r].pc = "new"
    /\ \E features \in Bodies :
          kvs' = IF ~IsArray(features)
                 THEN [kvs EXCEPT !.reqs[r].pc = "responded",
                                  !.reqs[r].features = features,
                                  !.reqs[r].response = BadRequest]
                 ELSE [kvs EXCEPT !.reqs[r].pc = "predicting",
                                  !.reqs[r].features = features]
    /\ UNCHANGED kvFrame

\* Lines 29-66: predict settles.  If it threw, the catch block answers 500.
\* Otherwise logPrediction is called, which runs to its first await, and the
\* response is returned without waiting for it.
PredictSettles(r) ==
    /\ kvs.reqs[r].pc = "predicting"
    /\ IF PredictThrows(kvs.lib, kvs.reqs[r].features)
       THEN kvs' = [kvs EXCEPT !.reqs[r].pc = "responded",
                               !.reqs[r].response = ServerError]
       ELSE LET prob == ModelProb(kvs.reqs[r].features)
            IN kvs' = [kvs EXCEPT !.reqs[r].pc = "responded",
                                  !.reqs[r].result = [prob |-> prob, label |-> LabelOf(prob)],
                                  !.reqs[r].log = "import",
                                  !.reqs[r].logAtResponse = "import",
                                  !.reqs[r].response = Ok(prob, LabelOf(prob))]
    /\ UNCHANGED kvFrame

\* Lines 176-182: the import of @vercel/kv settles; without KV the call
\* returns.
LogImport(r) ==
    /\ kvs.reqs[r].log = "import"
    /\ \E available \in BOOLEAN :
          kvs' = [kvs EXCEPT !.reqs[r].log = IF available THEN "set" ELSE "skipped"]
    /\ UNCHANGED kvFrame

\* Line 187: kv.set resolves.
LogSet(r) ==
    /\ kvs.reqs[r].log = "set"
    /\ kvs' = [kvs EXCEPT !.reqs[r].log = "zadd"]
    /\ UNCHANGED kvFrame

\* Line 190: kv.zadd resolves; the log is a member of the sorted set.
LogZadd(r) ==
    /\ kvs.reqs[r].log = "zadd"
    /\ kvs' = [kvs EXCEPT !.zset = Append(@, r), !.added = Append(@, r),
                          !.reqs[r].log = "zcard"]
    /\ UNCHANGED kvFrame

\* Lines 193-195: kv.zcard resolves; the number to remove is computed.
LogZcard(r) ==
    /\ kvs.reqs[r].log = "zcard"
    /\ LET count == Len(kvs.zset)
       IN  kvs' = IF count > MAX_PREDICTIONS
                  THEN [kvs EXCEPT !.reqs[r].log = "trim",
                                   !.reqs[r].toRemove = count - MAX_PREDICTIONS]
                  ELSE [kvs EXCEPT !.reqs[r].log = "done"]
    /\ UNCHANGED kvFrame

\* Line 196: kv.zremrangebyrank resolves.
LogTrim(r) ==
    /\ kvs.reqs[r].log = "trim"
    /\ kvs' = [kvs EXCEPT !.zset = ZRemRangeByRank(@, kvs.reqs[r].toRemove),
                          !.reqs[r].log = "done"]
    /\ UNCHANGED kvFrame

\* Lines 198-201: a KV call rejects; the error is swallowed.
LogFails(r) ==
    /\ kvs.reqs[r].log \in {"set", "zadd", "zcard", "trim"}
    /\ kvs' = [kvs EXCEPT !.reqs[r].log = "failed"]
    /\ UNCHANGED kvFrame

NextKv ==
    \E r \in Requests :
        \/ Post(r) \/ PredictSettles(r)
        \/ LogImport(r) \/ LogSet(r) \/ LogZadd(r) \/ LogZcard(r) \/ LogTrim(r)
        \/ LogFails(r)

SpecKv == InitKv /\ [][NextKv]_vars

---------------------------------------------------------------------------
(* The dashboard's es.onmessage (src/app/page.tsx 133-191).  A tick is      *)
(* named by its number in the stream; the prediction computed from the      *)
(* features of tick i is named i.                                           *)

MaxMessages == 4       \* messages of the event stream in one run

NoPred == 0

\* What a message is: a tick with its returns, a tick without them, or a
\* message of another type.
MessageKinds == {"tick", "tickNoReturns", "other"}

\* setLatest((p) => p ? { ...p, pred } : null)
AttachPred(p, prediction) == IF p = <<>> THEN <<>> ELSE [p EXCEPT !.pred = prediction]

dashFrame == <<heap, st, maxHistory, fed, seen, out, buf, tms, now, res,
               tick, feats, pred, srv, loader, kvs, flt>>

InitDash ==
    /\ heap = [a \in 1..4 |-> <<>>]
    /\ st = (1 :> initIndicatorState(0))
    /\ maxHistory = DefaultMaxHistory
    /\ fed = (1 :> <<>>)
    /\ seen = (1 :> [prices |-> <<>>, timestamps |-> <<>>, arg |-> initIndicatorState(0)])
    /\ out = <<>>
    /\ buf = <<>> /\ tms = <<>> /\ now = 0 /\ res = <<>>
    /\ NoDashboard
    /\ srv = <<>> /\ loader = <<>> /\ kvs = <<>> /\ flt = <<>>
    /\ dash = [latest |-> <<>>,       \* the state 'latest': <<>> is null
               received |-> 0,        \* messages received
               calls |-> [i \in 1..MaxMessages |-> "none"]]

\* Lines 133-178: a message arrives.  A tick replaces latest; with returns
\* present its features are posted to /api/predict.
OnMessage ==
    /\ dash.received < MaxMessages
    /\ \E kind \in MessageKinds :
          LET i == dash.received + 1
          IN  dash' = IF kind = "other"
                      THEN [dash EXCEPT !.received = i]
                      ELSE [dash EXCEPT !.received = i,
                                        !.latest = [t |-> i, pred |-> NoPred],
                                        !.calls[i] = IF kind = "tick" THEN "fetch" ELSE "none"]
    /\ UNCHANGED dashFrame

\* Lines 175-180: the fetch of tick i resolves, res.json() is awaited; or it
\* rejects and the error is logged.
FetchSettles(i) ==
    /\ dash.calls[i] = "fetch"
    /\ \E ok \in BOOLEAN :
          dash' = [dash EXCEPT !.calls[i] = IF ok THEN "json" ELSE "failed"]
    /\ UNCHANGED dashFrame

\* Lines 180-181: the body of the response for tick i is parsed and the
\* prediction is put on whatever latest is now.
JsonSettles(i) ==
    /\ dash.calls[i] = "json"
    /\ dash' = [dash EXCEPT !.calls[i] = "done",
                            !.latest = AttachPred(@, i)]
    /\ UNCHANGED dashFrame

NextDash ==
    \/ OnMessage
    \/ \E i \in 1..MaxMessages : FetchSettles(i) \/ JsonSettles(i)

SpecDash == InitDash /\ [][NextDash]_vars

---------------------------------------------------------------------------
(* The EMA recurrence in the arithmetic of the program: a JavaScript number *)
(* is an IEEE-754 binary64, every operation rounds its exact result to 53   *)
(* significant bits, ties to even.  A natural number of any size is the     *)
(* sequence of its digits in base 2^15, lowest first, without leading       *)
(* zeros; a positive double is [m, e] with 2^52 <= m < 2^53 and value       *)
(* m * 2^e.  Prices are far from the subnormal and the overflow range.      *)

MaxFloatTicks == 3     \* updateState calls in one run

LimbBits == 15
Base == 32768
Mantissa == 53

RECURSIVE BigNorm(_)
BigNorm(x) ==
    IF x = <<>> \/ x[Len(x)] # 0 THEN x ELSE BigNorm(SubSeq(x, 1, Len(x) - 1))

RECURSIVE BigOf(_)
BigOf(n) == IF n = 0 THEN <<>> ELSE <<n % Base>> \o BigOf(n \div Base)

Limb(x, i) == IF i <= Len(x) THEN x[i] ELSE 0

RECURSIVE BigAddFrom(_, _, _, _)
BigAddFrom(x, y, i, c) ==
    IF i > Len(x) /\ i > Len(y)
    THEN IF c = 0 THEN <<>> ELSE <<c>>
    ELSE LET s == Limb(x, i) + Limb(y, i) + c
         IN  <<s % Base>> \o BigAddFrom(x, y, i + 1, s \div Base)

BigAdd(x, y) == BigAddFrom(x, y, 1, 0)

\* x - y for x >= y
RECURSIVE BigSubFrom(_, _, _, _)
BigSubFrom(x, y, i, b) ==
    IF i > Len(x)
    THEN <<>>
    ELSE LET d == Limb(x, i) - Limb(y, i) - b
         IN  IF d < 0 THEN <<d + Base>> \o BigSubFrom(x, y, i + 1, 1)
                      ELSE <<d>> \o BigSubFrom(x, y, i + 1, 0)

BigSub(x, y) == BigNorm(BigSubFrom(x, y, 1, 0))

\* x * c for 0 <= c < Base
RECURSIVE BigMulSmallFrom(_, _, _, _)
BigMulSmallFrom(x, c, i, carry) ==
    IF i > Len(x)
    THEN BigOf(carry)
    ELSE LET s == x[i] * c + carry
         IN  <<s % Base>> \o BigMulSmallFrom(x, c, i + 1, s \div Base)

BigMulSmall(x, c) == IF c = 0 THEN <<>> ELSE BigMulSmallFrom(x, c, 1, 0)

RECURSIVE BigShiftLimbs(_, _)
BigShiftLimbs(x, k) ==
    IF k = 0 \/ x = <<>> THEN x ELSE <<0>> \o BigShiftLimbs(x, k - 1)

RECURSIVE BigMulFrom(_, _, _)
BigMulFrom(x, y, i) ==
    IF i > Len(y)
    THEN <<>>
    ELSE BigAdd(BigShiftLimbs(BigMulSmall(x, y[i]), i - 1), BigMulFrom(x, y, i + 1))

BigMul(x, y) == BigNorm(BigMulFrom(x, y, 1))

\* Quotient and remainder of x by d, 0 < d < Base, from the highest limb.
RECURSIVE BigDivSmallFrom(_, _, _, _)
BigDivSmallFrom(x, d, i, r) ==
    IF i = 0
    THEN [q |-> <<>>, r |-> r]
    ELSE LET cur == r * Base + x[i]
             rest == BigDivSmallFrom(x, d, i - 1, cur % d)
         IN  [q |-> Append(rest.q, cur \div d), r |-> rest.r]

BigDivSmall(x, d) ==
    LET found == BigDivSmallFrom(x, d, Len(x), 0)
    IN  [q |-> BigNorm(found.q), r |-> found.r]

RECURSIVE BitsOf(_)
BitsOf(n) == IF n = 0 THEN 0 ELSE 1 + BitsOf(n \div 2)

BitLen(x) == IF x = <<>> THEN 0 ELSE LimbBits * (Len(x) - 1) + BitsOf(x[Len(x)])

\* x * 2^k
BigShl(x, k) == BigShiftLimbs(BigMulSmall(x, 2 ^ (k % LimbBits)), k \div LimbBits)

\* floor(x / 2^k)
BigShr(x, k) ==
    LET drop == k \div LimbBits
    IN  IF drop >= Len(x) THEN <<>>
        ELSE BigDivSmall(SubSeq(x, drop + 1, Len(x)), 2 ^ (k % LimbBits)).q

RECURSIVE BigCmpFrom(_, _, _)
BigCmpFrom(x, y, i) ==
    IF i = 0 THEN 0
    ELSE IF x[i] < y[i] THEN -1
    ELSE IF x[i] > y[i] THEN 1
    ELSE BigCmpFrom(x, y, i - 1)

\* -1, 0, 1 as x < y, x = y, x > y
BigCmp(x, y) ==
    IF Len(x) < Len(y) THEN -1
    ELSE IF Len(x) > Len(y) THEN 1
    ELSE BigCmpFrom(x, y, Len(x))

BigOdd(x) == x # <<>> /\ x[1] % 2 = 1

\* The double nearest to m * 2^e (m > 0), ties to even.
RoundDyadic(m, e) ==
    LET n == BitLen(m)
    IN  IF n <= Mantissa
        THEN [m |-> BigShl(m, Mantissa - n), e |-> e - (Mantissa - n)]
        ELSE LET s == n - Mantissa
                 q == BigShr(m, s)
                 rest == BigSub(m, BigShl(q, s))
                 c == BigCmp(rest, BigShl(<<1>>, s - 1))
                 up == c > 0 \/ (c = 0 /\ BigOdd(q))
                 r == IF up THEN BigAdd(q, <<1>>) ELSE q
             IN  IF BitLen(r) > Mantissa
                 THEN [m |-> BigShr(r, 1), e |-> e + s + 1]
                 ELSE [m |-> r, e |-> e + s]

ScaleBits == 75

\* The double nearest to n / d for integers 0 < n, 0 < d < Base: of a
\* decimal literal (d a power of ten) or of the quotient of two small
\* integers.  A remainder is kept as one more low bit.
RoundRatio(n, d) ==
    LET found == BigDivSmall(BigShl(BigOf(n), ScaleBits), d)
    IN  IF found.r = 0
        THEN RoundDyadic(found.q, -ScaleBits)
        ELSE RoundDyadic(BigAdd(BigMulSmall(found.q, 2), <<1>>), -ScaleBits - 1)

FOne == RoundRatio(1, 1)

\* a * b
FMul(a, b) == RoundDyadic(BigMul(a.m, b.m), a.e + b.e)

\* a + b for positive a, b
FAdd(a, b) ==
    LET e == Min(a.e, b.e)
    IN  RoundDyadic(BigAdd(BigShl(a.m, a.e - e), BigShl(b.m, b.e - e)), e)

\* a - b for a > b > 0
FSub(a, b) ==
    LET e == Min(a.e, b.e)
    IN  RoundDyadic(BigSub(BigShl(a.m, a.e - e), BigShl(b.m, b.e - e)), e)

\* a <= b for positive doubles
FLe(a, b) == a.e < b.e \/ (a.e = b.e /\ BigCmp(a.m, b.m) <= 0)

\* const EMA_ALPHA = (span) => 2 / (span + 1)
EMA_ALPHA64(span) == RoundRatio(2, span + 1)

\* Mutant: the previous value is not scaled down.
ema64_Unscaled(prev, price, span) == FAdd(FMul(EMA_ALPHA64(span), price), prev)

\* alpha * price + (1 - alpha) * prev, each operation rounded
ema64(prev, price, span) ==
    LET alpha == EMA_ALPHA64(span)
    IN  FAdd(FMul(alpha, price), FMul(FSub(FOne, alpha), prev))

\* Prices in cents, as the price source prints them with two decimals.
FloatCents == {10000, 10100, 709037, 709038, 4325017}

\* JSON.parse of the decimal literal
ParseCents(cents) == RoundRatio(cents, 100)

floatFrame == <<heap, st, maxHistory, fed, seen, out, buf, tms, now, res,
                tick, feats, pred, srv, loader, kvs, dash>>

InitFloat ==
    /\ heap = [a \in 1..4 |-> <<>>]
    /\ st = (1 :> initIndicatorState(0))
    /\ maxHistory = DefaultMaxHistory
    /\ fed = (1 :> <<>>)
    /\ seen = (1 :> [prices |-> <<>>, timestamps |-> <<>>, arg |-> initIndicatorState(0)])
    /\ out = <<>>
    /\ buf = <<>> /\ tms = <<>> /\ now = 0 /\ res = <<>>
    /\ NoDashboard
    /\ srv = <<>> /\ loader = <<>> /\ kvs = <<>> /\ dash = <<>>
    /\ flt = [n |-> 0, ema12 |-> <<>>, ema26 |-> <<>>,
              lo |-> <<>>, hi |-> <<>>,       \* history: least and greatest price fed
              last |-> 0]                     \* history: the last price, in cents

\* updateState (lines 559-566) with the default maxHistory, below which the
\* buffer holds every price fed: the first price seeds both EMAs.
UpdateDouble(cents) ==
    /\ flt.n < MaxFloatTicks
    /\ flt.n < DefaultMaxHistory
    /\ LET price == ParseCents(cents)
       IN  flt' = IF flt.n = 0
                  THEN [n |-> 1, ema12 |-> price, ema26 |-> price,
                        lo |-> price, hi |-> price, last |-> cents]
                  ELSE [n |-> flt.n + 1,
                        ema12 |-> ema64(flt.ema12, price, 12),
                        ema26 |-> ema64(flt.ema26, price, 26),
                        lo |-> IF FLe(flt.lo, price) THEN flt.lo ELSE price,
                        hi |-> IF FLe(price, flt.hi) THEN flt.hi ELSE price,
                        last |-> cents]
    /\ UNCHANGED floatFrame

NextFloat == \E cents \in FloatCents : UpdateDouble(cents)

SpecFloat == InitFloat /\ [][NextFloat]_vars

---------------------------------------------------------------------------
(* Properties of the stream handler (SpecStream) *)

TickMessages == SelectSeq(srv.sent, LAMBDA m : m.type = "tick")

StreamTimes == heap[st[1].timestamps]
StreamPrices == heap[st[1].prices]

\* C21: every 'tick' message comes from one updateState followed at once by
\* computeIndicators on the state it returned, with the same price and time:
\* the buffer the record was computed from ends with that tick, and each
\* message has its own update.
C21_OneUpdatePerTickMessage ==
    \A k \in 1..Len(TickMessages) :
        LET m == TickMessages[k]
            n == Len(m.buffer.prices)
        IN  /\ n >= 1
            /\ m.buffer.prices[n] = m.price
            /\ m.buffer.timestamps[n] = m.t
            /\ [r5 |-> m.indicators.r5, r15 |-> m.indicators.r15,
                r30 |-> m.indicators.r30, r60 |-> m.indicators.r60]
                   = ReturnsFrom(m.price, m.buffer, m.t)
            /\ fed[1][m.updates] = <<m.price, m.t>>
            /\ \A j \in 1..(k - 1) : TickMessages[j].updates < m.updates

\* Two poll callbacks whose fetches overlapped have both sent their tick.
C21_Witness ==
    /\ Len(TickMessages) >= 3
    /\ srv.polls = MaxPolls /\ srv.cbs = {}
    /\ TickMessages[3].by < TickMessages[2].by
    /\ TickMessages[3].price # TickMessages[2].price
    /\ TickMessages[3].t = TickMessages[2].t

\* C22: the timestamps of the indicator buffer are non-decreasing in every
\* reachable state.
C22_TimestampsNonDecreasing ==
    \A i \in 1..(Len(StreamTimes) - 1) : StreamTimes[i] <= StreamTimes[i + 1]

\* Two callbacks completed out of order: the one started later stored its
\* tick first.
C22_Witness ==
    /\ Len(StreamTimes) >= 3
    /\ \E j, k \in 1..Len(TickMessages) :
           /\ j < k /\ TickMessages[j].by > TickMessages[k].by
           /\ TickMessages[j].t < TickMessages[k].t

\* C23: every price in the indicator buffer is > 0, and a fetch that returns
\* 0 calls no updateState, sends no message and leaves the state as it was.
C23_OnlyPositivePricesStored ==
    /\ [](\A i \in 1..Len(StreamPrices) : Lt(Zero, StreamPrices[i]))
    /\ [][(/\ Len(srv'.returned) > Len(srv.returned)
           /\ ~Lt(Zero, srv'.returned[Len(srv'.returned)]))
          => (heap' = heap /\ st' = st /\ fed' = fed /\ srv'.sent = srv.sent)]_vars

C23_Witness ==
    /\ Len(srv.returned) >= 3
    /\ srv.returned[2] = Zero
    /\ Len(StreamPrices) = 2 /\ Len(TickMessages) = 2

\* C24: once the controller is closed, neither enqueue nor close is called
\* on it again.
C24_NoUseAfterClose == srv.afterClose = {}

\* C25: after the client has disconnected no fetchPrice call is started.
C25_NoFetchAfterDisconnect ==
    [][srv.aborted => srv'.fetches = srv.fetches]_vars

---------------------------------------------------------------------------
(* Properties of the model cache (SpecLoader) *)

Loading == {c \in Callers : loader.calls[c].pc = "loading"}

\* C26: at most one load is in flight; every call that has returned, those
\* that waited included, got the module-level model; and once the model is
\* set no call starts another load.
C26_InitOnce ==
    /\ [](/\ Cardinality(Loading) <= 1
          /\ \A c \in Callers :
                loader.calls[c].pc = "done" =>
                    (loader.calls[c].ret # NoModel /\ loader.calls[c].ret = loader.model))
    /\ [][loader.model # NoModel => loader'.loads = loader.loads]_vars

\* Two calls arrived during the load, waited, and returned its model; a
\* call made afterwards returned it too.
C26_Witness ==
    /\ \A c \in Callers : loader.calls[c].pc = "done" /\ loader.calls[c].ret = loader.model
    /\ Cardinality({c \in Callers : loader.calls[c].waited}) >= 2
    /\ loader.loads = 1

---------------------------------------------------------------------------
(* Properties of POST /api/predict and of the telemetry (SpecKv) *)

Logged == {r \in Requests : kvs.reqs[r].log # "none"}
Completed == {r \in Requests : kvs.reqs[r].log = "done"}

\* C27: after logPrediction calls with distinct logs have all run to
\* completion, in any interleaving, the sorted set holds the
\* min(n, MAX_PREDICTIONS) most recently added logs; and a trim never takes
\* the set below MAX_PREDICTIONS entries.
C27_KeepsLastPredictions ==
    /\ [](Logged # {} /\ Completed = Logged =>
            LET n == Len(kvs.added)
            IN  kvs.zset = SubSeq(kvs.added, n - Min(n, MAX_PREDICTIONS) + 1, n))
    /\ [][Len(kvs'.zset) < Len(kvs.zset) => Len(kvs'.zset) >= MAX_PREDICTIONS]_vars

Req(r) == kvs.reqs[r]

---------------------------------------------------------------------------
(* Properties of the dashboard (SpecDash) *)

\* C29: the prediction attached to the displayed latest tick was computed
\* from the features of that tick, under every interleaving of tick
\* messages and /api/predict responses.
C29_PredictionOfDisplayedTick ==
    dash.latest # <<>> /\ dash.latest.pred # NoPred => dash.latest.pred = dash.latest.t

---------------------------------------------------------------------------
(* Properties of the EMA fields in double arithmetic (SpecFloat) *)

Emas == {flt.ema12, flt.ema26}

\* C30: as claimed, after any non-empty sequence of updateState calls with
\* the default maxHistory, ema12 and ema26 each lie between the least and
\* the greatest price fed so far.
C30_EmaBetweenMinAndMax ==
    flt.n > 0 => \A e \in Emas : FLe(flt.lo, e) /\ FLe(e, flt.hi)

\* |a - b| <= b * 2^-45
Near(a, b) ==
    LET e == Min(a.e, b.e)
        x == BigShl(a.m, a.e - e)
        y == BigShl(b.m, b.e - e)
        diff == IF BigCmp(x, y) >= 0 THEN BigSub(x, y) ELSE BigSub(y, x)
    IN  BigCmp(BigShl(diff, 45), y) <= 0

\* C30, amended: ema12 and ema26 each lie between the least and the
\* greatest price fed so far up to the rounding of the steps: where one is
\* below the least or above the greatest price it differs from it by at
\* most 2^-45 of its value.
C30_EmaBetweenUpToRounding ==
    flt.n > 0 =>
        \A e \in Emas : /\ FLe(flt.lo, e) \/ Near(e, flt.lo)
                        /\ FLe(e, flt.hi) \/ Near(e, flt.hi)

\* Three prices, not all the same, have been fed and both EMAs have moved
\* off their seed by different amounts.
C30_Witness ==
    /\ flt.n >= 3
    /\ flt.lo # flt.hi
    /\ flt.ema12 # flt.ema26
    /\ \A e \in Emas : e # flt.lo /\ e # flt.hi

=============================================================================
